---- MODULE Spec2Model ----
(***************************************************************************)
(* A model of the deer-flow research workflow: the graph of                *)
(* src/graph/builder.py, the nodes of src/graph/nodes.py and the parallel  *)
(* sub-agent coordinator of src/graph/multi_agent_nodes.py.                *)
(*                                                                         *)
(* Strings the code builds by formatting are sequences of text pieces      *)
(* (concatenation is \o, the empty string is << >>); a worker's raw output *)
(* is the sequence of its lines.  A float confidence is kept in            *)
(* hundredths (0.85 is 85).                                                *)
(***************************************************************************)
EXTENDS Integers, Sequences, FiniteSets, TLC

VARIABLES
    node,             \* the graph node about to run ("__end__" / "raised" when over)
    state,            \* the workflow State (graph/types.py)
    configurable,     \* Configuration.from_runnable_config(config)
    full_response,    \* planner_node: the model output it last obtained
    raised_by,        \* the node whose exception ended the run, or "none"
    feedback,         \* human_feedback_node: the value interrupt() resumed with
    call,             \* the function or method last called by itself, with its arguments
    ret,              \* what that call returned
    pc,               \* parallel_research_node: "idle", "gather" or "joined"
    parallel_tasks,   \* the SubAgentTask list of the round
    started,          \* how many of the round's coroutines have begun to run
    outcome,          \* per task: what its coroutine has come to
    errorLog,         \* agent_ids named by a logger.error event
    subagent_results  \* what execute_parallel_research returned

vars == <<node, state, configurable, full_response, raised_by, feedback, call, ret, pc,
          parallel_tasks, started, outcome, errorLog, subagent_results>>

---------------------------------------------------------------------------
(* Bounds of the model *)

\* plan_iterations of the initial State ranges over 0..MaxInitIterations
MaxInitIterations == 2
\* max_plan_iterations of the Configuration ranges over 1..MaxConfiguredIterations
MaxConfiguredIterations == 2

---------------------------------------------------------------------------
(* Program constants *)

BaseScore == 2
MaxScore == 5
LongQueryWords == 10
MinSubagents == 2
NodeMaxSubagents == 4
TopKeyLines == 5
TruncateAt == 1000
ConfidentScore == 85
FailedScore == 0

Min(a, b) == IF a <= b THEN a ELSE b
Max(a, b) == IF a >= b THEN a ELSE b

---------------------------------------------------------------------------
(* Complexity assessor.  A query is known by the indicator substrings that *)
(* occur in query.lower() and by len(query.split()).  The two Russian      *)
(* terms that stand in both the complexity and the breadth list are kept   *)
(* under transliterated names.                                             *)

complexity_indicators ==
    {"analyze", "compare", "comprehensive", "detailed", "market", "industry",
     "research", "investigate", "study", "evaluation", "assessment",
     "ru:vliyanie", "ru:tendentsii"}

breadth_indicators ==
    {"impact", "trends", "future", "current state", "stakeholders",
     "ru:vliyanie", "ru:tendentsii",
     "ecosystem", "landscape", "overview", "multiple", "various"}

technical_indicators ==
    {"technical", "architecture", "implementation", "code", "system"}

\* AssessQueryComplexity with one point for every matching term
AssessQueryComplexityPerTerm(query) ==
    LET s0 == BaseScore
        s1 == s0 + Cardinality(complexity_indicators \cap query.terms)
        s2 == s1 + Cardinality(breadth_indicators \cap query.terms)
        s3 == s2 + Cardinality(technical_indicators \cap query.terms)
        s4 == IF query.words > LongQueryWords THEN s3 + 1 ELSE s3
    IN  Min(MaxScore, s4)

AssessQueryComplexity(query) ==
    LET s0 == BaseScore
        s1 == IF \E ind \in complexity_indicators : ind \in query.terms
              THEN s0 + 1 ELSE s0
        s2 == IF \E ind \in breadth_indicators : ind \in query.terms
              THEN s1 + 1 ELSE s1
        s3 == IF \E ind \in technical_indicators : ind \in query.terms
              THEN s2 + 1 ELSE s2
        s4 == IF query.words > LongQueryWords THEN s3 + 1 ELSE s3
    IN  Min(MaxScore, s4)

\* "What is Python?"
QuerySimple == [terms |-> {}, words |-> 3]
\* "Python code basics"
QueryCode == [terms |-> {"code"}, words |-> 3]
\* "Analyze the impact of AI on healthcare"
QueryHealthcare == [terms |-> {"analyze", "impact"}, words |-> 7]
\* "Compare and evaluate the current landscape of quantum computing
\*  technologies and their detailed impact on cybersecurity"
QueryQuantum ==
    [terms |-> {"compare", "detailed", "landscape", "impact"}, words |-> 16]

Titles == {QuerySimple, QueryCode, QueryHealthcare, QueryQuantum}

---------------------------------------------------------------------------
(* Task decomposer *)

all_aspects ==
    << [type |-> "current_state",        focus |-> "Current State Analysis"],
       [type |-> "historical_context",   focus |-> "Historical Context"],
       [type |-> "stakeholder_analysis", focus |-> "Stakeholder Analysis"],
       [type |-> "technical_specs",
        focus |-> "Technical Specifications & Architectures"],
       [type |-> "data_analysis",        focus |-> "Quantitative & Data Analysis"],
       [type |-> "future_trends",        focus |-> "Future Trends & Implications"] >>

\* Python's seq[:n] for n >= 0
Take(seq, n) == SubSeq(seq, 1, Min(n, Len(seq)))

\* IdentifyResearchAspects without the case of three agents
IdentifyResearchAspectsNoMiddleCase(num_agents) ==
    IF num_agents = 2 THEN << all_aspects[1], all_aspects[6] >>
    ELSE Take(all_aspects, num_agents)

IdentifyResearchAspects(num_agents) ==
    IF num_agents = 2 THEN << all_aspects[1], all_aspects[6] >>
    ELSE IF num_agents = 3 THEN << all_aspects[1], all_aspects[2], all_aspects[6] >>
    ELSE Take(all_aspects, num_agents)

SelectToolsForAspect(aspect_type) ==
    IF aspect_type \in {"current_state", "future_trends", "data_analysis",
                        "technical_specs"}
    THEN << "web_search", "crawl_tool", "python_repl_tool" >>
    ELSE << "web_search", "crawl_tool" >>

\* GetAgentTypeForAspect deciding by the list of SelectToolsForAspect
GetAgentTypeForAspectByToolList(aspect_type) ==
    IF aspect_type \in {"current_state", "future_trends", "data_analysis",
                        "technical_specs"}
    THEN "coder" ELSE "researcher"

GetAgentTypeForAspect(aspect_type) ==
    IF aspect_type \in {"future_trends", "data_analysis", "technical_specs"}
    THEN "coder" ELSE "researcher"

\* SubAgentTask naming the agent after its role alone, without the index
SubAgentTaskNamedByRole(i, aspect) ==
    [agent_id       |-> << 0, GetAgentTypeForAspect(aspect.type) >>,
     research_focus |-> aspect.focus,
     tools          |-> SelectToolsForAspect(aspect.type),
     agent_type     |-> GetAgentTypeForAspect(aspect.type)]

\* SubAgentTask; agent_id f"subagent_{i}_{type}" is the pair <<i, type>>
SubAgentTask(i, aspect) ==
    [agent_id       |-> << i, aspect.type >>,
     research_focus |-> aspect.focus,
     tools          |-> SelectToolsForAspect(aspect.type),
     agent_type     |-> GetAgentTypeForAspect(aspect.type)]

\* CreateParallelResearchPlan without the cap of max_subagents
CreateParallelResearchPlanUncapped(query, max_subagents) ==
    LET complexity_score  == AssessQueryComplexity(query)
        optimal_subagents == Max(MinSubagents, complexity_score)
        research_aspects  == Take(IdentifyResearchAspects(optimal_subagents),
                                  optimal_subagents)
    IN  [i \in 1..Len(research_aspects) |-> SubAgentTask(i - 1, research_aspects[i])]

\* CreateParallelResearchPlan with the floor of two applied after the cap
CreateParallelResearchPlanFloorLast(query, max_subagents) ==
    LET complexity_score  == AssessQueryComplexity(query)
        optimal_subagents == Max(MinSubagents, Min(max_subagents, complexity_score))
        research_aspects  == Take(IdentifyResearchAspects(optimal_subagents),
                                  optimal_subagents)
    IN  [i \in 1..Len(research_aspects) |-> SubAgentTask(i - 1, research_aspects[i])]

CreateParallelResearchPlan(query, max_subagents) ==
    LET complexity_score  == AssessQueryComplexity(query)
        optimal_subagents == Min(max_subagents, Max(MinSubagents, complexity_score))
        research_aspects  == Take(IdentifyResearchAspects(optimal_subagents),
                                  optimal_subagents)
    IN  [i \in 1..Len(research_aspects) |-> SubAgentTask(i - 1, research_aspects[i])]

---------------------------------------------------------------------------
(* Result compressor.  A line is one of the strings below; what the code   *)
(* finds in a line by substring search is tabulated per line.              *)

LineKeyFinding == "Key finding: adoption is growing"
LineImportant  == "IMPORTANT: costs are falling"
LineSource     == "Source: https://example.org/a"
LinePlain      == "Nothing notable here"
LineLong       == "x * 1200"
LineLongCut    == "x * 1000"

\* any(keyword in line.lower() for keyword in ['key', 'important',
\* 'finding', 'result', 'conclusion'])
HasKeyword(line) == line \in {LineKeyFinding, LineImportant}

\* len(line)
LineChars(line) ==
    CASE line = LineKeyFinding -> 32
      [] line = LineImportant  -> 28
      [] line = LineSource     -> 29
      [] line = LinePlain      -> 20
      [] line = LineLong       -> 1200
      [] line = LineLongCut    -> 1000
      [] OTHER                 -> 0

\* re.findall(url pattern, line)
LineUrls(line) == IF line = LineSource THEN {"https://example.org/a"} ELSE {}

\* raw_content.split('\n'): the empty string splits into one empty line
SplitLines(raw_content) == IF raw_content = << >> THEN << "" >> ELSE raw_content

RECURSIVE RawChars(_)
\* len(raw_content): the lines and the newlines between them
RawChars(raw_content) ==
    IF raw_content = << >> THEN 0
    ELSE IF Len(raw_content) = 1 THEN LineChars(raw_content[1])
    ELSE LineChars(raw_content[1]) + 1 + RawChars(Tail(raw_content))

\* line[:k] for the lines of the model
CutLine(line, k) ==
    IF k >= LineChars(line) THEN line
    ELSE IF line = LineLong /\ k = TruncateAt THEN LineLongCut
    ELSE "<cut>"

RECURSIVE Truncate(_, _)
\* raw_content[:k]
Truncate(raw_content, k) ==
    IF raw_content = << >> \/ k <= 0 THEN << >>
    ELSE IF LineChars(raw_content[1]) >= k THEN << CutLine(raw_content[1], k) >>
    ELSE << raw_content[1] >> \o Truncate(Tail(raw_content), k - LineChars(raw_content[1]) - 1)

\* CompressFindings with every key line kept
CompressFindingsAllKeyLines(raw_content, focus_area) ==
    LET lines      == SplitLines(raw_content)
        key_lines  == SelectSeq(lines, HasKeyword)
        compressed == IF key_lines # << >> THEN key_lines
                      ELSE IF RawChars(raw_content) > TruncateAt
                           THEN Truncate(raw_content, TruncateAt) \o << "..." >>
                           ELSE raw_content
    IN  << "**", focus_area, "**:" >> \o compressed

\* CompressFindings with the key lines cut after the fourth
CompressFindingsFourKeyLines(raw_content, focus_area) ==
    LET lines      == SplitLines(raw_content)
        key_lines  == SelectSeq(lines, HasKeyword)
        compressed == IF key_lines # << >> THEN Take(key_lines, TopKeyLines - 1)
                      ELSE IF RawChars(raw_content) > TruncateAt
                           THEN Truncate(raw_content, TruncateAt) \o << "..." >>
                           ELSE raw_content
    IN  << "**", focus_area, "**:" >> \o compressed

CompressFindings(raw_content, focus_area) ==
    LET lines      == SplitLines(raw_content)
        key_lines  == SelectSeq(lines, HasKeyword)
        compressed == IF key_lines # << >> THEN Take(key_lines, TopKeyLines)
                      ELSE IF RawChars(raw_content) > TruncateAt
                           THEN Truncate(raw_content, TruncateAt) \o << "..." >>
                           ELSE raw_content
    IN  << "**", focus_area, "**:" >> \o compressed

ExtractSources(content) == UNION {LineUrls(content[i]) : i \in 1..Len(content)}

---------------------------------------------------------------------------
(* Sub-agent results *)

\* the SubAgentResult of the try block
SuccessResult(task, response_content) ==
    [agent_id         |-> task.agent_id,
     research_focus   |-> task.research_focus,
     key_findings     |-> CompressFindings(response_content, task.research_focus),
     raw_data         |-> response_content,
     confidence_score |-> ConfidentScore,
     sources          |-> ExtractSources(response_content)]

\* DegradedResult with the confidence of the try block left in place
DegradedResultKeepsScore(task, e) ==
    [agent_id         |-> task.agent_id,
     research_focus   |-> task.research_focus,
     key_findings     |-> << "Research failed: " >> \o e,
     raw_data         |-> << >>,
     confidence_score |-> ConfidentScore,
     sources          |-> {}]

\* the SubAgentResult of the except block; e is str(e)
DegradedResult(task, e) ==
    [agent_id         |-> task.agent_id,
     research_focus   |-> task.research_focus,
     key_findings     |-> << "Research failed: " >> \o e,
     raw_data         |-> << >>,
     confidence_score |-> FailedScore,
     sources          |-> {}]

\* where a task's coroutine stands
NoResult == [agent_id |-> << -1, "" >>, research_focus |-> "", key_findings |-> << >>,
             raw_data |-> << >>, confidence_score |-> FailedScore, sources |-> {}]
Ready      == [kind |-> "ready",     result |-> NoResult, caught |-> FALSE]
Invoking   == [kind |-> "invoking",  result |-> NoResult, caught |-> FALSE]
Raised     == [kind |-> "exception", result |-> NoResult, caught |-> FALSE]
Returned(r, wasCaught) == [kind |-> "result", result |-> r, caught |-> wasCaught]

\* what agent.ainvoke gives: a final message's content, or an exception
WorkerContents == { << >>, << LineKeyFinding, LineSource >> }
WorkerErrors   == { << "tool failure" >> }

---------------------------------------------------------------------------
(* Plan model and the planner's model output *)

PARALLEL_MULTI_AGENT == "parallel_multi_agent"
SEQUENTIAL_STEPS     == "sequential_steps"
PlanningMode == {PARALLEL_MULTI_AGENT, SEQUENTIAL_STEPS}

NoTitle == [terms |-> {}, words |-> 0]

\* an Optional[List[...]] field: None, or a list
NoneList == [none |-> TRUE, items |-> << >>]
SomeList(items) == [none |-> FALSE, items |-> items]

\* an Optional list that is neither None nor empty (its truth value)
Populated(list) == ~list.none /\ Len(list.items) > 0

\* SubAgentStream.findings and .confidence_score when None
NoFindings == "<None>"
NoScore == -1

\* a SubAgentStream as the model output gives it (status defaults to
\* pending, findings and confidence_score to None)
Stream(stream_id) ==
    [stream_id |-> stream_id, status |-> "pending",
     findings |-> NoFindings, confidence_score |-> NoScore]

\* Step.execution_res is None
NoneRes == "<None>"
RESEARCH   == "research"
PROCESSING == "processing"
\* a Step (src.prompts.planner_model)
Step(step_type, execution_res) ==
    [step_type |-> step_type, execution_res |-> execution_res]

\* current_plan is None
NoPlan == [kind |-> "None", locale |-> "", planning_mode |-> "None",
           has_enough_context |-> "None", title |-> NoTitle, subagent_streams |-> NoneList, steps |-> NoneList]

\* current_plan holding the planner's text; text is what the text parses to
StoredText(text) == [kind |-> "str", text |-> text]

\* the value has the attributes of a plan object (title, thought): None and
\* a stored text have none, a plan object of either model has them
HasTitle(current_plan) == current_plan.kind \in {"plan", "legacy"}

\* no model output was obtained
NoResponse == [json |-> "none", locale |-> "", planning_mode |-> "None", required |-> FALSE,
               has_enough_context |-> "None", title |-> NoTitle,
               subagent_streams |-> NoneList, steps |-> NoneList]

\* the locale a plan payload names
PlanLocale == "zh-CN"

\* a JSON object with the required fields
PlanObject(mode, enough, title, streams, steps) ==
    [json |-> "object", locale |-> PlanLocale, planning_mode |-> mode, required |-> TRUE,
     has_enough_context |-> enough, title |-> title,
     subagent_streams |-> streams, steps |-> steps]

\* the streams or steps a well-shaped plan of the mode carries
TwoStreams == SomeList(<< Stream("current_state"), Stream("market_analysis") >>)
OneStep    == SomeList(<< Step(RESEARCH, NoneRes) >>)
ShapedPlanObject(mode, enough, title) ==
    IF mode = PARALLEL_MULTI_AGENT
    THEN PlanObject(mode, enough, title, TwoStreams, NoneList)
    ELSE PlanObject(mode, enough, title, NoneList, OneStep)

\* JSON objects the schema has no rule against: two streams of one id, a
\* parallel plan that carries steps only, a sequential plan that carries
\* both, a parallel plan that carries neither
OddPlanObjects ==
    { PlanObject(PARALLEL_MULTI_AGENT, "None", QuerySimple,
                 SomeList(<< Stream("current_state"), Stream("current_state") >>),
                 NoneList),
      PlanObject(PARALLEL_MULTI_AGENT, "None", QuerySimple, NoneList, OneStep),
      PlanObject(SEQUENTIAL_STEPS, "None", QuerySimple, TwoStreams, OneStep),
      PlanObject(PARALLEL_MULTI_AGENT, "None", QuerySimple, NoneList, NoneList) }

\* A model output: text json.loads rejects after repair, or a JSON object
\* with or without the required fields (locale, thought, title) and with a
\* planning_mode that is or is not a PlanningMode value.
PlannerResponses ==
    { [NoResponse EXCEPT !.json = "unparsable"] }
    \cup
    { PlanObject("bogus", "None", QuerySimple, NoneList, NoneList),
      [NoResponse EXCEPT !.json = "object", !.planning_mode = PARALLEL_MULTI_AGENT] }
    \cup
    { ShapedPlanObject(mode, enough, title) :
        mode \in PlanningMode, enough \in {"None", "False", "True"}, title \in Titles }
    \cup
    OddPlanObjects

\* json.loads(repair_json_output(full_response)) does not raise JSONDecodeError
JsonLoads(response) == response.json = "object"

\* UnifiedResearchPlan.model_validate(curr_plan) does not raise
ModelValidates(curr_plan) ==
    curr_plan.required /\ curr_plan.planning_mode \in PlanningMode

\* the UnifiedResearchPlan that model_validate builds
UnifiedResearchPlan(curr_plan) ==
    [kind               |-> "plan",
     locale             |-> curr_plan.locale,
     planning_mode      |-> curr_plan.planning_mode,
     has_enough_context |-> curr_plan.has_enough_context,
     title              |-> curr_plan.title,
     subagent_streams   |-> curr_plan.subagent_streams,
     steps              |-> curr_plan.steps]

\* Python truth of an Optional[bool]
Truthy(b) == b = "True"

---------------------------------------------------------------------------
(* The coordinator's model output: response.tool_calls *)

HandoffCall == [name |-> "handoff_to_planner", locale |-> "ru-RU",
                research_topic |-> "quantum computing"]
BareHandoffCall == [name |-> "handoff_to_planner", locale |-> "", research_topic |-> ""]
OtherCall == [name |-> "other_tool", locale |-> "", research_topic |-> ""]

CoordinatorResponses ==
    { << >>, << HandoffCall >>, << BareHandoffCall >>, << OtherCall, HandoffCall >> }

\* the tool calls that the loop of coordinator_node stops at
Handoffs(tool_calls) ==
    SelectSeq(tool_calls,
              LAMBDA c : c.name = "handoff_to_planner"
                         /\ c.locale # "" /\ c.research_topic # "")

\* no function has been called by itself
NoCall == [fn |-> "none"]
NoReturn == "<nothing>"

\* what interrupt() gives human_feedback_node: None, or a text
NoFeedback == [none |-> TRUE, text |-> << >>]
Feedback(text) == [none |-> FALSE, text |-> text]

\* StaticEdges with the research stage handed back to research_team
StaticEdgesBackToTeam(n) ==
    CASE n = "background_investigator" -> {"planner"}
      [] n = "parallel_research"       -> {"reporter", "research_team"}
      [] n = "reporter"                -> {"__end__"}
      [] OTHER                         -> {}

\* the nodes that the add_edge calls of the graph trigger after node n
StaticEdges(n) ==
    CASE n = "background_investigator" -> {"planner"}
      [] n = "parallel_research"       -> {"reporter"}
      [] n = "reporter"                -> {"__end__"}
      [] OTHER                         -> {}

---------------------------------------------------------------------------
(* Initial states *)

InitialState(obs, iterations, background) ==
    [messages                         |-> << "user" >>,
     locale                           |-> "en-US",
     research_topic                   |-> "",
     observations                     |-> obs,
     plan_iterations                  |-> iterations,
     current_plan                     |-> NoPlan,
     final_report                     |-> "",
     auto_accepted_plan               |-> FALSE,
     enable_background_investigation  |-> background,
     background_investigation_results |-> "None",
     research_mode                    |-> ""]

PriorObservation == [focus |-> "earlier round", findings |-> << >>,
                     confidence |-> FailedScore, sources |-> 0]

Init ==
    /\ node = "coordinator"
    /\ \E obs \in {<< >>, << PriorObservation >>},
          iterations \in 0..MaxInitIterations,
          background \in BOOLEAN :
            state = InitialState(obs, iterations, background)
    /\ \E m \in 1..MaxConfiguredIterations :
            configurable = [max_plan_iterations |-> m]
    /\ full_response = NoResponse
    /\ raised_by = "none"
    /\ feedback = NoFeedback
    /\ call = NoCall
    /\ ret = NoReturn
    /\ pc = "idle"
    /\ parallel_tasks = << >>
    /\ started = 0
    /\ outcome = << >>
    /\ errorLog = {}
    /\ subagent_results = << >>

parallelVars == <<pc, parallel_tasks, started, outcome, errorLog, subagent_results>>

---------------------------------------------------------------------------
(* Nodes of the graph *)

\* coordinator_node with its own answer kept as the report when it ends the run
coordinator_nodeAnswersAsReport ==
    /\ node = "coordinator"
    /\ \E tool_calls \in CoordinatorResponses :
         LET goto == IF Len(tool_calls) > 0
                     THEN IF state.enable_background_investigation
                          THEN "background_investigator" ELSE "planner"
                     ELSE "__end__"
             found == Handoffs(tool_calls)
         IN  /\ node' = goto
             /\ state' = IF found # << >>
                         THEN [state EXCEPT !.locale = found[1].locale,
                                            !.research_topic = found[1].research_topic]
                         ELSE IF goto = "__end__"
                         THEN [state EXCEPT !.final_report = "answer"]
                         ELSE state
    /\ UNCHANGED <<configurable, call, ret, feedback, full_response, raised_by, parallelVars>>

coordinator_node ==
    /\ node = "coordinator"
    /\ \E tool_calls \in CoordinatorResponses :
         LET goto == IF Len(tool_calls) > 0
                     THEN IF state.enable_background_investigation
                          THEN "background_investigator" ELSE "planner"
                     ELSE "__end__"
             found == Handoffs(tool_calls)
         IN  /\ node' = goto
             /\ state' = IF found # << >>
                         THEN [state EXCEPT !.locale = found[1].locale,
                                            !.research_topic = found[1].research_topic]
                         ELSE state
    /\ UNCHANGED <<configurable, call, ret, feedback, full_response, raised_by, parallelVars>>

background_investigation_node ==
    /\ node = "background_investigator"
    /\ state' = [state EXCEPT !.background_investigation_results = "results"]
    /\ node' \in StaticEdges(node)
    /\ UNCHANGED <<configurable, call, ret, feedback, full_response, raised_by, parallelVars>>

\* PlannerRoute with a sequential plan sent to human_feedback
PlannerRouteByMode(response) ==
    IF ~JsonLoads(response)
    THEN /\ node' = IF state.plan_iterations > 0 THEN "reporter" ELSE "__end__"
         /\ UNCHANGED <<state, raised_by>>
    ELSE IF ~ModelValidates(response)
    THEN /\ node' = "raised"
         /\ raised_by' = "planner"
         /\ UNCHANGED state
    ELSE LET new_plan == UnifiedResearchPlan(response)
         IN  /\ state' = [state EXCEPT
                            !.messages = Append(@, "planner"),
                            !.current_plan = new_plan,
                            !.research_mode =
                                IF Truthy(new_plan.has_enough_context)
                                THEN "skip" ELSE "parallel"]
             /\ node' = IF Truthy(new_plan.has_enough_context) THEN "reporter"
                        ELSE IF new_plan.planning_mode = SEQUENTIAL_STEPS
                             THEN "human_feedback" ELSE "parallel_research"
             /\ UNCHANGED raised_by

\* PlannerRoute with every parse failure sent to the end
PlannerRouteParseFailureEnds(response) ==
    IF ~JsonLoads(response)
    THEN /\ node' = "__end__"
         /\ UNCHANGED <<state, raised_by>>
    ELSE IF ~ModelValidates(response)
    THEN /\ node' = "raised"
         /\ raised_by' = "planner"
         /\ UNCHANGED state
    ELSE LET new_plan == UnifiedResearchPlan(response)
         IN  /\ state' = [state EXCEPT
                            !.messages = Append(@, "planner"),
                            !.current_plan = new_plan,
                            !.research_mode =
                                IF Truthy(new_plan.has_enough_context)
                                THEN "skip" ELSE "parallel"]
             /\ node' = IF Truthy(new_plan.has_enough_context)
                        THEN "reporter" ELSE "parallel_research"
             /\ UNCHANGED raised_by

\* PlannerRoute with the plan's has_enough_context left unread
PlannerRouteIgnoresContext(response) ==
    IF ~JsonLoads(response)
    THEN /\ node' = IF state.plan_iterations > 0 THEN "reporter" ELSE "__end__"
         /\ UNCHANGED <<state, raised_by>>
    ELSE IF ~ModelValidates(response)
    THEN /\ node' = "raised"
         /\ raised_by' = "planner"
         /\ UNCHANGED state
    ELSE LET new_plan == UnifiedResearchPlan(response)
         IN  /\ state' = [state EXCEPT
                            !.messages = Append(@, "planner"),
                            !.current_plan = new_plan,
                            !.research_mode = "parallel"]
             /\ node' = "parallel_research"
             /\ UNCHANGED raised_by

\* PlannerRoute counting the plan it stores as an iteration
PlannerRouteCountsIteration(response) ==
    IF ~JsonLoads(response)
    THEN /\ node' = IF state.plan_iterations > 0 THEN "reporter" ELSE "__end__"
         /\ UNCHANGED <<state, raised_by>>
    ELSE IF ~ModelValidates(response)
    THEN /\ node' = "raised"
         /\ raised_by' = "planner"
         /\ UNCHANGED state
    ELSE LET new_plan == UnifiedResearchPlan(response)
         IN  /\ state' = [state EXCEPT
                            !.messages = Append(@, "planner"),
                            !.current_plan = new_plan,
                            !.plan_iterations = @ + 1,
                            !.research_mode =
                                IF Truthy(new_plan.has_enough_context)
                                THEN "skip" ELSE "parallel"]
             /\ node' = IF Truthy(new_plan.has_enough_context)
                        THEN "reporter" ELSE "parallel_research"
             /\ UNCHANGED raised_by

\* planner_node once the model output is in hand
PlannerRoute(response) ==
    IF ~JsonLoads(response)
    THEN /\ node' = IF state.plan_iterations > 0 THEN "reporter" ELSE "__end__"
         /\ UNCHANGED <<state, raised_by>>
    ELSE IF ~ModelValidates(response)
    THEN /\ node' = "raised"
         /\ raised_by' = "planner"
         /\ UNCHANGED state
    ELSE LET new_plan == UnifiedResearchPlan(response)
         IN  /\ state' = [state EXCEPT
                            !.messages = Append(@, "planner"),
                            !.current_plan = new_plan,
                            !.research_mode =
                                IF Truthy(new_plan.has_enough_context)
                                THEN "skip" ELSE "parallel"]
             /\ node' = IF Truthy(new_plan.has_enough_context)
                        THEN "reporter" ELSE "parallel_research"
             /\ UNCHANGED raised_by

\* planner_node with the cap read as "greater than"
planner_nodeStrictCap ==
    /\ node = "planner"
    /\ IF state.plan_iterations > configurable.max_plan_iterations
       THEN /\ node' = "reporter"
            /\ UNCHANGED <<state, full_response, raised_by>>
       ELSE \E response \in PlannerResponses :
               /\ full_response' = response
               /\ PlannerRoute(response)
    /\ UNCHANGED <<configurable, call, ret, feedback, parallelVars>>

planner_node ==
    /\ node = "planner"
    /\ IF state.plan_iterations >= configurable.max_plan_iterations
       THEN /\ node' = "reporter"
            /\ UNCHANGED <<state, full_response, raised_by>>
       ELSE \E response \in PlannerResponses :
               /\ full_response' = response
               /\ PlannerRoute(response)
    /\ UNCHANGED <<configurable, call, ret, feedback, parallelVars>>

reporter_node ==
    /\ node = "reporter"
    /\ IF ~HasTitle(state.current_plan)
       THEN /\ node' = "raised"
            /\ raised_by' = "reporter"
            /\ UNCHANGED state
       ELSE /\ state' = [state EXCEPT !.final_report = "report"]
            /\ node' \in StaticEdges(node)
            /\ UNCHANGED raised_by
    /\ UNCHANGED <<configurable, call, ret, feedback, full_response, parallelVars>>

---------------------------------------------------------------------------
(* parallel_research_node and the MultiAgentCoordinator.  The node runs up *)
(* to asyncio.gather in one step; every coroutine of the round then runs   *)
(* from its start to "await agent.ainvoke" in one step and from the        *)
(* worker's answer to its return in another; the node resumes when gather  *)
(* completes and runs to its return in one step.  A well-formed worker     *)
(* answer (a final message with string content) is assumed, so inside the  *)
(* try block only agent.ainvoke raises.                                    *)

Terminal(o) == o.kind \in {"result", "exception"}

\* GatherDone as asyncio.wait(..., return_when=FIRST_COMPLETED) would have it
GatherDoneFirstCompleted(outs) == \E i \in DOMAIN outs : Terminal(outs[i])

\* GatherDone were the join to count returned results only
GatherDoneResultsOnly(outs) == \A i \in DOMAIN outs : outs[i].kind = "result"

\* asyncio.gather(*coroutines, return_exceptions=True) completes when every
\* awaitable has completed
GatherDone(outs) == \A i \in DOMAIN outs : Terminal(outs[i])

\* what gather returns: one entry per awaitable, in argument order, a
\* raised exception standing as the entry
GatherResults(outs) == outs

\* SuccessfulResults were one exception among the entries to void the batch
SuccessfulResultsAllOrNothing(results) ==
    IF \E i \in DOMAIN results : results[i].kind = "exception"
    THEN << >>
    ELSE [i \in DOMAIN results |-> results[i].result]

\* [result for result in results if isinstance(result, SubAgentResult)]
SuccessfulResults(results) ==
    LET kept == SelectSeq(results, LAMBDA o : o.kind = "result")
    IN  [i \in 1..Len(kept) |-> kept[i].result]

\* the observation string the node formats from one result
Observation(result) ==
    [focus      |-> result.research_focus,
     findings   |-> result.key_findings,
     confidence |-> result.confidence_score,
     sources    |-> Cardinality(result.sources)]

\* DispatchTasks asking the planner for a plan when there is none to work on
DispatchTasksReplansWithoutPlan ==
    /\ node = "parallel_research"
    /\ pc = "idle"
    /\ IF ~HasTitle(state.current_plan)
       THEN /\ node' = "planner"
            /\ UNCHANGED parallelVars
       ELSE LET tasks == CreateParallelResearchPlan(state.current_plan.title,
                                                    NodeMaxSubagents)
            IN  /\ parallel_tasks' = tasks
                /\ outcome' = [i \in 1..Len(tasks) |-> Ready]
                /\ started' = 0
                /\ pc' = "gather"
                /\ UNCHANGED <<node, errorLog, subagent_results>>
    /\ UNCHANGED <<state, configurable, call, ret, feedback, full_response, raised_by>>

\* parallel_research_node up to the await of gather
DispatchTasks ==
    /\ node = "parallel_research"
    /\ pc = "idle"
    /\ IF ~HasTitle(state.current_plan)
       THEN /\ node' = "reporter"
            /\ UNCHANGED parallelVars
       ELSE LET tasks == CreateParallelResearchPlan(state.current_plan.title,
                                                    NodeMaxSubagents)
            IN  /\ parallel_tasks' = tasks
                /\ outcome' = [i \in 1..Len(tasks) |-> Ready]
                /\ started' = 0
                /\ pc' = "gather"
                /\ UNCHANGED <<node, errorLog, subagent_results>>
    /\ UNCHANGED <<state, configurable, call, ret, feedback, full_response, raised_by>>

\* _execute_subagent_task from its first line to the await of agent.ainvoke;
\* create_agent stands before the try block.  The event loop starts the
\* tasks of gather in argument order.
TaskStart(i) ==
    /\ pc = "gather"
    /\ i = started + 1
    /\ i <= Len(parallel_tasks)
    /\ started' = i
    /\ \E created \in BOOLEAN :
         outcome' = [outcome EXCEPT ![i] = IF created THEN Invoking ELSE Raised]
    /\ UNCHANGED <<node, state, configurable, call, ret, feedback, full_response,
                   raised_by, pc, parallel_tasks, errorLog, subagent_results>>

\* _execute_subagent_task from the worker's answer to its return
TaskFinish(i) ==
    /\ pc = "gather"
    /\ i \in DOMAIN outcome
    /\ outcome[i] = Invoking
    /\ \/ \E response_content \in WorkerContents :
            /\ outcome' = [outcome EXCEPT ![i] =
                             Returned(SuccessResult(parallel_tasks[i], response_content),
                                      FALSE)]
            /\ UNCHANGED errorLog
       \/ \E e \in WorkerErrors :
            /\ errorLog' = errorLog \cup {parallel_tasks[i].agent_id}
            /\ outcome' = [outcome EXCEPT ![i] =
                             Returned(DegradedResult(parallel_tasks[i], e), TRUE)]
    /\ UNCHANGED <<node, state, configurable, call, ret, feedback, full_response,
                   raised_by, pc, parallel_tasks, started, subagent_results>>

\* FanIn handing the observations back to the planner for another round
FanInBackToPlanner ==
    /\ pc = "gather"
    /\ GatherDone(outcome)
    /\ LET results            == GatherResults(outcome)
           successful_results == SuccessfulResults(results)
           observations       == [i \in 1..Len(successful_results) |->
                                     Observation(successful_results[i])]
       IN  /\ subagent_results' = successful_results
           /\ state' = [state EXCEPT
                          !.observations = observations,
                          !.messages = Append(@, "multi_agent_coordinator")]
    /\ pc' = "joined"
    /\ node' = "planner"
    /\ UNCHANGED <<configurable, call, ret, feedback, full_response, raised_by,
                   parallel_tasks, started, outcome, errorLog>>

\* the node from the completion of gather to its return: the rest of
\* execute_parallel_research, the observations and the Command
FanIn ==
    /\ pc = "gather"
    /\ GatherDone(outcome)
    /\ LET results            == GatherResults(outcome)
           successful_results == SuccessfulResults(results)
           observations       == [i \in 1..Len(successful_results) |->
                                     Observation(successful_results[i])]
       IN  /\ subagent_results' = successful_results
           /\ state' = [state EXCEPT
                          !.observations = observations,
                          !.messages = Append(@, "multi_agent_coordinator")]
    /\ pc' = "joined"
    /\ node' = "reporter"
    /\ UNCHANGED <<configurable, call, ret, feedback, full_response, raised_by,
                   parallel_tasks, started, outcome, errorLog>>

---------------------------------------------------------------------------
(* The graph *)

\* a round never holds more tasks than the catalog has aspects
TaskIds == 1..Len(all_aspects)

Next ==
    \/ coordinator_node
    \/ background_investigation_node
    \/ planner_node
    \/ DispatchTasks
    \/ \E i \in TaskIds : TaskStart(i)
    \/ \E i \in TaskIds : TaskFinish(i)
    \/ FanIn
    \/ reporter_node

Spec == Init /\ [][Next]_vars

\* a first run under max_plan_iterations = 1, as test_multi_agent_coordinator
\* configures it
DefaultRunInit ==
    /\ Init
    /\ state.plan_iterations = 0
    /\ configurable.max_plan_iterations = 1

\* Every coroutine the event loop holds is run, a worker's await ends (with
\* an answer or an exception), and the node is resumed when gather completes.
FairSpec ==
    /\ DefaultRunInit
    /\ [][Next]_vars
    /\ \A i \in TaskIds : WF_vars(TaskStart(i)) /\ WF_vars(TaskFinish(i))
    /\ WF_vars(FanIn)

\* a first run, and a run that enters with its iteration budget used up
TerminationInit ==
    /\ Init
    /\ configurable.max_plan_iterations = 1
    /\ state.plan_iterations \in {0, configurable.max_plan_iterations}

\* The graph runtime executes the node a Command or an edge names and goes on
\* until END or an exception; inside the research stage the event loop runs
\* as under FairSpec.
TerminationSpec ==
    /\ TerminationInit
    /\ [][Next]_vars
    /\ WF_vars(coordinator_node)
    /\ WF_vars(background_investigation_node)
    /\ WF_vars(planner_node)
    /\ WF_vars(DispatchTasks)
    /\ \A i \in TaskIds : WF_vars(TaskStart(i)) /\ WF_vars(TaskFinish(i))
    /\ WF_vars(FanIn)
    /\ WF_vars(reporter_node)

\* what the research stage can find as current_plan when it is entered: no
\* plan, a plan kept as text, or a plan object for each of the titles
StagePlans ==
    { NoPlan, StoredText(ShapedPlanObject(PARALLEL_MULTI_AGENT, "False", QuerySimple)) }
    \cup { UnifiedResearchPlan(ShapedPlanObject(PARALLEL_MULTI_AGENT, "False", title)) :
              title \in Titles }

\* the research stage on its own, from its entry to its Command
ResearchStageInit ==
    /\ node = "parallel_research"
    /\ \E obs \in {<< >>, << PriorObservation >>}, plan \in StagePlans :
            state = [InitialState(obs, 0, FALSE) EXCEPT !.current_plan = plan]
    /\ configurable = [max_plan_iterations |-> 1]
    /\ full_response = NoResponse
    /\ raised_by = "none"
    /\ feedback = NoFeedback
    /\ call = NoCall
    /\ ret = NoReturn
    /\ pc = "idle"
    /\ parallel_tasks = << >>
    /\ started = 0
    /\ outcome = << >>
    /\ errorLog = {}
    /\ subagent_results = << >>

ResearchStageNext ==
    \/ DispatchTasks
    \/ \E i \in TaskIds : TaskStart(i)
    \/ \E i \in TaskIds : TaskFinish(i)
    \/ FanIn

ResearchStageSpec ==
    /\ ResearchStageInit
    /\ [][ResearchStageNext]_vars
    /\ WF_vars(DispatchTasks)
    /\ \A i \in TaskIds : WF_vars(TaskStart(i)) /\ WF_vars(TaskFinish(i))
    /\ WF_vars(FanIn)

---------------------------------------------------------------------------
(* Cancellation of the run while parallel_research_node awaits gather.     *)
(* Cancelling the awaiting task cancels gather, which cancels every child  *)
(* that is not done; CancelledError is thrown into a child at the await it *)
(* stands at (or before its first line, if it has not begun), and gather   *)
(* lets the awaiting task go on only when every child is done.  The        *)
(* worker's ainvoke is taken to let CancelledError through.                *)

Cancelled == [kind |-> "cancelled", result |-> NoResult, caught |-> FALSE]

\* OnCancel with CancelledError taken for an Exception
OnCancelCaughtAsException(task, o) ==
    IF o = Invoking THEN Returned(DegradedResult(task, << "cancelled" >>), TRUE)
    ELSE IF o = Ready THEN Cancelled
    ELSE o

\* what a coroutine comes to when CancelledError is thrown into it: the
\* handler "except Exception" does not take CancelledError, a BaseException
OnCancel(task, o) ==
    IF o = Invoking \/ o = Ready THEN Cancelled ELSE o

Cancel ==
    /\ node = "parallel_research"
    /\ pc = "gather"
    /\ \E i \in DOMAIN outcome : outcome[i] = Ready \/ outcome[i] = Invoking
    /\ outcome' = [i \in DOMAIN outcome |-> OnCancel(parallel_tasks[i], outcome[i])]
    /\ pc' = "cancelled"
    /\ node' = "cancelled"
    /\ UNCHANGED <<state, configurable, call, ret, feedback, full_response, raised_by,
                   parallel_tasks, started, errorLog, subagent_results>>

CancelNext ==
    \/ Next
    \/ Cancel

\* a first run that may be cancelled at the join
CancelSpec == DefaultRunInit /\ [][CancelNext]_vars

---------------------------------------------------------------------------
(* human_feedback_node and the router of research_team.  No edge of the     *)
(* built graph and no goto of a node leads to them, so they are run from    *)
(* the states a caller can hand them.                                       *)

\* a sequential plan given to the router has 0..MaxSteps steps
MaxSteps == 3

\* bool(feedback)
FeedbackTruthy(fb) == ~fb.none /\ Len(fb.text) > 0

\* str.upper() of a text piece
Upper(piece) ==
    CASE piece = "[edit_plan]" -> "[EDIT_PLAN]"
      [] piece = "[Accepted]"  -> "[ACCEPTED]"
      [] OTHER                 -> piece

IsEditRequest(fb) == FeedbackTruthy(fb) /\ Upper(fb.text[1]) = "[EDIT_PLAN]"

\* IsAcceptance with the test for an empty value left out
IsAcceptanceOrEmpty(fb) ==
    ~FeedbackTruthy(fb) \/ Upper(fb.text[1]) = "[ACCEPTED]"

IsAcceptance(fb) == FeedbackTruthy(fb) /\ Upper(fb.text[1]) = "[ACCEPTED]"

\* the values a reviewer resumes the interrupt with
Feedbacks ==
    { NoFeedback,
      Feedback(<< >>),
      Feedback(<< "[EDIT_PLAN]", " add a step" >>),
      Feedback(<< "[edit_plan]" >>),
      Feedback(<< "[ACCEPTED]" >>),
      Feedback(<< "[Accepted]", " go on" >>),
      Feedback(<< "yes" >>),
      Feedback(<< " ", "[ACCEPTED]" >>) }

\* HumanFeedbackAccepted with every accepted plan sent to parallel_research
HumanFeedbackAcceptedAlwaysResearch ==
    LET plan_iterations == state.plan_iterations + 1
        new_plan == state.current_plan.text
    IN  IF ~JsonLoads(new_plan)
        THEN /\ node' = IF plan_iterations > 1 THEN "reporter" ELSE "__end__"
             /\ UNCHANGED <<state, raised_by>>
        ELSE IF ~ModelValidates(new_plan)
        THEN /\ node' = "raised"
             /\ raised_by' = "human_feedback"
             /\ UNCHANGED state
        ELSE /\ state' = [state EXCEPT
                            !.current_plan = UnifiedResearchPlan(new_plan),
                            !.plan_iterations = plan_iterations,
                            !.locale = new_plan.locale,
                            !.research_mode = "parallel"]
             /\ node' = "parallel_research"
             /\ UNCHANGED raised_by

\* human_feedback_node once the plan is accepted
HumanFeedbackAccepted ==
    LET plan_iterations == state.plan_iterations + 1
        new_plan == state.current_plan.text
    IN  IF ~JsonLoads(new_plan)
        THEN /\ node' = IF plan_iterations > 1 THEN "reporter" ELSE "__end__"
             /\ UNCHANGED <<state, raised_by>>
        ELSE IF ~ModelValidates(new_plan)
        THEN /\ node' = "raised"
             /\ raised_by' = "human_feedback"
             /\ UNCHANGED state
        ELSE LET validated_plan == UnifiedResearchPlan(new_plan)
             IN  /\ state' = [state EXCEPT
                                !.current_plan = validated_plan,
                                !.plan_iterations = plan_iterations,
                                !.locale = new_plan.locale,
                                !.research_mode = "parallel"]
                 /\ node' = IF Truthy(validated_plan.has_enough_context)
                            THEN "reporter" ELSE "parallel_research"
                 /\ UNCHANGED raised_by

human_feedback_node ==
    /\ node = "human_feedback"
    /\ IF state.auto_accepted_plan
       THEN /\ UNCHANGED feedback
            /\ HumanFeedbackAccepted
       ELSE \E fb \in Feedbacks :
               /\ feedback' = fb
               /\ IF IsEditRequest(fb)
                  THEN /\ state' = [state EXCEPT !.messages = Append(@, "feedback")]
                       /\ node' = "planner"
                       /\ UNCHANGED raised_by
                  ELSE IF IsAcceptance(fb)
                  THEN HumanFeedbackAccepted
                  ELSE /\ node' = "raised"
                       /\ raised_by' = "human_feedback"
                       /\ UNCHANGED state
    /\ UNCHANGED <<configurable, call, ret, full_response, parallelVars>>

\* bool(step.execution_res)
HasResult(step) == step.execution_res # NoneRes /\ step.execution_res # ""

\* the value of the loop variable when the loop over the steps is left
RECURSIVE LoopStep(_, _)
LoopStep(steps, i) ==
    IF i = Len(steps) \/ ~HasResult(steps[i])
    THEN steps[i]
    ELSE LoopStep(steps, i + 1)

\* the route for a non-empty list of steps
StepRoute(steps) ==
    IF \A i \in 1..Len(steps) : HasResult(steps[i])
    THEN "planner"
    ELSE LET step == LoopStep(steps, 1)
         IN  IF step.step_type = RESEARCH THEN "researcher"
             ELSE IF step.step_type = PROCESSING THEN "coder"
             ELSE "planner"

continue_to_running_research_team(current_plan) ==
    IF current_plan.kind = "str"
    THEN "planner"
    ELSE IF current_plan.kind = "plan" /\ current_plan.planning_mode = PARALLEL_MULTI_AGENT
    THEN "parallel_research"
    ELSE IF current_plan.kind = "plan" /\ current_plan.planning_mode = SEQUENTIAL_STEPS
    THEN IF ~Populated(current_plan.steps)
         THEN "planner"
         ELSE StepRoute(current_plan.steps.items)
    ELSE IF current_plan.kind = "legacy" /\ Populated(current_plan.steps)
    THEN StepRoute(current_plan.steps.items)
    ELSE "planner"

\* the conditional edge out of research_team
research_team_edge ==
    /\ node = "research_team"
    /\ node' = continue_to_running_research_team(state.current_plan)
    /\ UNCHANGED <<state, configurable, call, ret, full_response, raised_by, feedback,
                   parallelVars>>

is_research_complete(plan) ==
    IF plan.planning_mode = PARALLEL_MULTI_AGENT
    THEN /\ Populated(plan.subagent_streams)
         /\ \A i \in 1..Len(plan.subagent_streams.items) :
                plan.subagent_streams.items[i].status = "completed"
    ELSE IF plan.planning_mode = SEQUENTIAL_STEPS
    THEN /\ Populated(plan.steps)
         /\ \A i \in 1..Len(plan.steps.items) :
                plan.steps.items[i].execution_res # NoneRes
    ELSE FALSE

\* the lists of steps a plan may carry
Steps == { Step(step_type, execution_res) :
             step_type \in {RESEARCH, PROCESSING},
             execution_res \in {NoneRes, "", "done"} }
StepLists == UNION { [1..n -> Steps] : n \in 0..MaxSteps }

SequentialPlan(steps) ==
    UnifiedResearchPlan(PlanObject(SEQUENTIAL_STEPS, "False", QuerySimple, NoneList, steps))

\* a Plan of src.prompts.planner_model
LegacyPlan(steps) ==
    [kind |-> "legacy", locale |-> PlanLocale, planning_mode |-> "None",
     has_enough_context |-> "False", title |-> QuerySimple,
     subagent_streams |-> NoneList, steps |-> SomeList(steps)]

RouterPlans ==
    { NoPlan,
      StoredText(ShapedPlanObject(SEQUENTIAL_STEPS, "False", QuerySimple)),
      UnifiedResearchPlan(ShapedPlanObject(PARALLEL_MULTI_AGENT, "False", QuerySimple)),
      SequentialPlan(NoneList) }
    \cup { SequentialPlan(SomeList(steps)) : steps \in StepLists }
    \cup { LegacyPlan(steps) : steps \in StepLists }

HandlerInit ==
    /\ \/ /\ node = "human_feedback"
          /\ \E text \in PlannerResponses,
                iterations \in 0..MaxInitIterations,
                auto \in BOOLEAN :
                  state = [InitialState(<< >>, iterations, FALSE) EXCEPT
                              !.current_plan = StoredText(text),
                              !.auto_accepted_plan = auto]
       \/ /\ node = "research_team"
          /\ \E plan \in RouterPlans :
                  state = [InitialState(<< >>, 0, FALSE) EXCEPT !.current_plan = plan]
    /\ configurable = [max_plan_iterations |-> 1]
    /\ full_response = NoResponse
    /\ raised_by = "none"
    /\ feedback = NoFeedback
    /\ call = NoCall
    /\ ret = NoReturn
    /\ pc = "idle"
    /\ parallel_tasks = << >>
    /\ started = 0
    /\ outcome = << >>
    /\ errorLog = {}
    /\ subagent_results = << >>

HandlerNext ==
    \/ human_feedback_node
    \/ research_team_edge

HandlerSpec == HandlerInit /\ [][HandlerNext]_vars

\* the texts a caller stores as current_plan before human_feedback in the
\* runs that go on through the graph: one that does not parse, one that
\* does not validate, a plan that needs research and one that does not
FeedbackTexts ==
    { [NoResponse EXCEPT !.json = "unparsable"],
      PlanObject("bogus", "None", QuerySimple, NoneList, NoneList),
      ShapedPlanObject(PARALLEL_MULTI_AGENT, "False", QuerySimple),
      ShapedPlanObject(SEQUENTIAL_STEPS, "True", QuerySimple) }

\* a run of the graph from its entry, or one a caller resumes at
\* human_feedback with a plan text in the state
ResumedRunInit ==
    \/ DefaultRunInit
    \/ /\ node = "human_feedback"
       /\ \E text \in FeedbackTexts,
             iterations \in 0..MaxInitIterations,
             auto \in BOOLEAN :
               state = [InitialState(<< >>, iterations, FALSE) EXCEPT
                           !.current_plan = StoredText(text),
                           !.auto_accepted_plan = auto]
       /\ configurable = [max_plan_iterations |-> 1]
       /\ full_response = NoResponse
       /\ raised_by = "none"
       /\ feedback = NoFeedback
       /\ call = NoCall
       /\ ret = NoReturn
       /\ pc = "idle"
       /\ parallel_tasks = << >>
       /\ started = 0
       /\ outcome = << >>
       /\ errorLog = {}
       /\ subagent_results = << >>

\* the nodes of the graph with human_feedback among them: its Command
\* names planner, parallel_research, reporter or the end, and the run goes on
ResumedRunNext ==
    \/ human_feedback_node
    \/ Next

ResumedRunSpec == ResumedRunInit /\ [][ResumedRunNext]_vars

---------------------------------------------------------------------------
(* The functions of the coordinator and the methods of the plan model,     *)
(* called by themselves on arguments drawn from bounded sets.              *)

\* a query holds at most MaxQueryTerms of the indicator terms
MaxQueryTerms == 3

\* indicator terms a query may hold: two complexity terms, a breadth term,
\* a term of both the complexity and the breadth list, two technical terms,
\* and a breadth term that contains a technical term ("system" is a
\* substring of "ecosystem")
TermPool ==
    {"analyze", "compare", "impact", "ru:vliyanie", "code", "system", "ecosystem"}

\* len(query.split()) of the queries
QueryWordCounts == {3, 10, 11}

Queries ==
    { [terms |-> terms, words |-> words] :
        terms \in { t \in SUBSET TermPool :
                      /\ Cardinality(t) <= MaxQueryTerms
                      /\ "ecosystem" \in t => "system" \in t },
        words \in QueryWordCounts }

\* the frame of a call that touches no plan; one call is looked at per run
CallFrame ==
    /\ node = "not_running"
    /\ call = NoCall
    /\ UNCHANGED <<node, state, configurable, full_response, raised_by, feedback,
                   parallelVars>>

assess_query_complexity_call ==
    /\ CallFrame
    /\ \E query \in Queries :
          /\ call' = [fn |-> "_assess_query_complexity", query |-> query]
          /\ ret' = AssessQueryComplexity(query)

\* num_agents ranges over 0..MaxNumAgents
MaxNumAgents == 6

identify_research_aspects_call ==
    /\ CallFrame
    /\ \E query \in Titles, num_agents \in 0..MaxNumAgents :
          /\ call' = [fn |-> "_identify_research_aspects", query |-> query,
                      num_agents |-> num_agents]
          /\ ret' = IdentifyResearchAspects(num_agents)

\* max_subagents ranges over 0..MaxSubagentsArgument
MaxSubagentsArgument == 6

create_parallel_research_plan_call ==
    /\ CallFrame
    /\ \E query \in Queries, max_subagents \in 0..MaxSubagentsArgument :
          /\ call' = [fn |-> "create_parallel_research_plan", query |-> query,
                      max_subagents |-> max_subagents]
          /\ ret' = CreateParallelResearchPlan(query, max_subagents)

\* a raw output has at most MaxRawLines lines
MaxRawLines == 6

\* the raw outputs: with and without key lines, short and over TruncateAt
RawLines == {LineKeyFinding, LineImportant, LinePlain, LineLong}
RawContents == UNION { [1..n -> RawLines] : n \in 0..MaxRawLines }
FocusAreas == { all_aspects[1].focus, all_aspects[6].focus }

compress_findings_call ==
    /\ CallFrame
    /\ \E raw_content \in RawContents, focus_area \in FocusAreas :
          /\ call' = [fn |-> "_compress_findings", raw_content |-> raw_content,
                      focus_area |-> focus_area]
          /\ ret' = CompressFindings(raw_content, focus_area)

FunctionInit ==
    /\ node = "not_running"
    /\ state = InitialState(<< >>, 0, FALSE)
    /\ configurable = [max_plan_iterations |-> 1]
    /\ full_response = NoResponse
    /\ raised_by = "none"
    /\ feedback = NoFeedback
    /\ call = NoCall
    /\ ret = NoReturn
    /\ pc = "idle"
    /\ parallel_tasks = << >>
    /\ started = 0
    /\ outcome = << >>
    /\ errorLog = {}
    /\ subagent_results = << >>

FunctionNext ==
    \/ assess_query_complexity_call
    \/ identify_research_aspects_call
    \/ create_parallel_research_plan_call
    \/ compress_findings_call

FunctionSpec == FunctionInit /\ [][FunctionNext]_vars

---------------------------------------------------------------------------
(* The plan model: a plan object and the methods that change it *)

\* a plan holds at most MaxStreams streams
MaxStreams == 3

StreamIds == {"current_state", "market_analysis"}

\* the lists of streams a plan may carry; the schema lets an id stand twice
StreamLists == UNION { [1..n -> {Stream(id) : id \in StreamIds}] : n \in 0..MaxStreams }

ParallelPlan(streams) ==
    UnifiedResearchPlan(PlanObject(PARALLEL_MULTI_AGENT, "None", QuerySimple,
                                   streams, NoneList))

StreamPlans ==
    { ParallelPlan(NoneList) }
    \cup { ParallelPlan(SomeList(streams)) : streams \in StreamLists }

\* mark_stream_completed with the loop run to its end
MarkStreamCompletedNoBreak(plan, stream_id, findings, confidence) ==
    IF ~Populated(plan.subagent_streams)
    THEN plan
    ELSE [plan EXCEPT !.subagent_streams.items =
            [i \in 1..Len(@) |->
                IF @[i].stream_id = stream_id
                THEN [@[i] EXCEPT !.status = "completed",
                                  !.findings = findings,
                                  !.confidence_score = confidence]
                ELSE @[i]]]

\* the loop stops at the first stream of the id
MarkStreamCompleted(plan, stream_id, findings, confidence) ==
    IF ~Populated(plan.subagent_streams)
    THEN plan
    ELSE LET items == plan.subagent_streams.items
             hits  == { i \in 1..Len(items) : items[i].stream_id = stream_id }
         IN  IF hits = {}
             THEN plan
             ELSE LET first == CHOOSE i \in hits : \A j \in hits : i <= j
                  IN  [plan EXCEPT !.subagent_streams.items[first] =
                          [@ EXCEPT !.status = "completed",
                                    !.findings = findings,
                                    !.confidence_score = confidence]]

mark_stream_completed_call ==
    /\ node = "not_running"
    /\ state.current_plan.kind = "plan"
    /\ \E stream_id \in StreamIds \cup {"unknown"},
          findings \in {"", "adoption is growing"},
          confidence \in {FailedScore, ConfidentScore} :
          /\ call' = [fn |-> "mark_stream_completed", stream_id |-> stream_id,
                      findings |-> findings, confidence |-> confidence]
          /\ state' = [state EXCEPT !.current_plan =
                          MarkStreamCompleted(@, stream_id, findings, confidence)]
          /\ ret' = "None"
    /\ UNCHANGED <<node, configurable, full_response, raised_by, feedback, parallelVars>>

\* the streams of the plan that are not completed, in the plan's order
GetActiveStreams(plan) ==
    IF ~Populated(plan.subagent_streams)
    THEN << >>
    ELSE SelectSeq(plan.subagent_streams.items, LAMBDA stream : stream.status # "completed")

get_active_streams_call ==
    /\ node = "not_running"
    /\ state.current_plan.kind = "plan"
    /\ call' = [fn |-> "get_active_streams"]
    /\ ret' = GetActiveStreams(state.current_plan)
    /\ UNCHANGED <<node, state, configurable, full_response, raised_by, feedback,
                   parallelVars>>

is_research_complete_call ==
    /\ node = "not_running"
    /\ state.current_plan.kind = "plan"
    /\ call' = [fn |-> "is_research_complete"]
    /\ ret' = is_research_complete(state.current_plan)
    /\ UNCHANGED <<node, state, configurable, full_response, raised_by, feedback,
                   parallelVars>>

PlanModelInit ==
    /\ node = "not_running"
    /\ \E plan \in StreamPlans :
          state = [InitialState(<< >>, 0, FALSE) EXCEPT !.current_plan = plan]
    /\ configurable = [max_plan_iterations |-> 1]
    /\ full_response = NoResponse
    /\ raised_by = "none"
    /\ feedback = NoFeedback
    /\ call = NoCall
    /\ ret = NoReturn
    /\ pc = "idle"
    /\ parallel_tasks = << >>
    /\ started = 0
    /\ outcome = << >>
    /\ errorLog = {}
    /\ subagent_results = << >>

PlanModelNext ==
    \/ mark_stream_completed_call
    \/ get_active_streams_call
    \/ is_research_complete_call

PlanModelSpec == PlanModelInit /\ [][PlanModelNext]_vars

---------------------------------------------------------------------------
(* Properties *)

\* the tasks of the round whose coroutine has not come to an end
Running == {i \in DOMAIN outcome : outcome[i].kind \in {"ready", "invoking"}}
\* the tasks whose execution raised inside the try block / before it
Caught   == {i \in DOMAIN outcome : outcome[i].kind = "result" /\ outcome[i].caught}
Escaped  == {i \in DOMAIN outcome : outcome[i].kind = "exception"}
Succeeded == {i \in DOMAIN outcome : outcome[i].kind = "result" /\ ~outcome[i].caught}

ResultsOf(agent_id) ==
    {j \in DOMAIN subagent_results : subagent_results[j].agent_id = agent_id}

\* C1: execute_parallel_research returns exactly one result per dispatched
\* task, whichever tasks raise and wherever in their execution.
C1_OneResultPerTask ==
    pc = "joined" => Len(subagent_results) = Len(parallel_tasks)

\* C2: a task whose own worker invocation succeeded is in the returned list
\* as a result of confidence 0.85, whatever its siblings came to.
C2_SiblingsNotAborted ==
    pc = "joined" =>
        \A i \in Succeeded :
            \E j \in ResultsOf(parallel_tasks[i].agent_id) :
                /\ subagent_results[j] = outcome[i].result
                /\ subagent_results[j].confidence_score = ConfidentScore

C2_Witness ==
    /\ pc = "joined"
    /\ Succeeded # {} /\ Caught # {} /\ Escaped # {}

\* C3: during parallel_research the workflow state is written by one step
\* only, the fan-in, and that step is taken when no task of the round is
\* still running.
C3_BarrierJoin ==
    [][(node = "parallel_research" /\ state' # state) =>
          /\ Running = {}
          /\ pc = "gather" /\ pc' = "joined" /\ node' = "reporter"
          /\ Len(state'.observations) = Len(subagent_results')]_vars

C3_Witness ==
    /\ pc = "joined"
    /\ Len(state.observations) >= 2
    /\ Caught # {}

\* C4 as stated: a task whose worker raised ends in a result with the
\* task's agent_id and research_focus, confidence 0.0, empty findings, empty
\* raw output and no sources.
C4_DegradedResultEmptyFindings ==
    \A i \in Caught :
        /\ outcome[i].result.agent_id = parallel_tasks[i].agent_id
        /\ outcome[i].result.research_focus = parallel_tasks[i].research_focus
        /\ outcome[i].result.confidence_score = 0
        /\ outcome[i].result.key_findings = << >>
        /\ outcome[i].result.raw_data = << >>
        /\ outcome[i].result.sources = {}

\* C4 as amended: the degraded result carries the task's agent_id and
\* research_focus, confidence 0.0, empty raw output and no sources; its
\* findings are the text "Research failed: " followed by the exception's
\* message; the result is returned as a value to the caller of
\* execute_parallel_research, which does not raise.
C4_DegradedResult ==
    \A i \in Caught :
        /\ outcome[i].result.agent_id = parallel_tasks[i].agent_id
        /\ outcome[i].result.research_focus = parallel_tasks[i].research_focus
        /\ outcome[i].result.confidence_score = 0
        /\ \E e \in WorkerErrors :
              outcome[i].result.key_findings = << "Research failed: " >> \o e
        /\ outcome[i].result.raw_data = << >>
        /\ outcome[i].result.sources = {}
        /\ pc = "joined" =>
              /\ \E j \in DOMAIN subagent_results : subagent_results[j] = outcome[i].result
              /\ raised_by = "none"

C4_Witness ==
    /\ pc = "joined"
    /\ Caught # {}
    /\ Succeeded # {}

\* C5: every task that ended in failure is named by an error log event or
\* has a result in the returned list.
C5_FailuresAccounted ==
    pc = "joined" =>
        \A i \in Caught \cup Escaped :
            \/ parallel_tasks[i].agent_id \in errorLog
            \/ ResultsOf(parallel_tasks[i].agent_id) # {}

\* C6: once the tasks are dispatched execute_parallel_research eventually
\* returns; it has not returned while a task is running; and when the last
\* task has come to an end nothing else holds the return back.
C6_JoinLiveness ==
    /\ (pc = "gather") ~> (pc = "joined")
    /\ [](pc = "joined" => Running = {})
    /\ []((pc = "gather" /\ Running = {}) => ENABLED FanIn)

C6_Witness ==
    /\ pc = "joined"
    /\ Len(parallel_tasks) >= 3
    /\ Caught # {}

\* the case of C7: the round has returned to the graph, the plan's title
\* scores 5 and exactly one task failed
ScoreFiveOneFailure ==
    /\ pc = "joined"
    /\ node = "reporter"
    /\ AssessQueryComplexity(state.current_plan.title) = MaxScore
    /\ Cardinality(Caught \cup Escaped) = 1

Confident(results) ==
    {j \in DOMAIN results : results[j].confidence_score = ConfidentScore}
Unconfident(results) ==
    {j \in DOMAIN results : results[j].confidence_score = 0}

\* C7 as stated: with a score of 5 the stage dispatches 5 tasks, and with
\* one failure it yields 5 results (4 confident, 1 at 0.0) and the reporter
\* receives 5 observations.
C7_FiveTasksFiveObservations ==
    ScoreFiveOneFailure =>
        /\ Len(parallel_tasks) = 5
        /\ Len(subagent_results) = 5
        /\ Cardinality(Confident(subagent_results)) = 4
        /\ Cardinality(Unconfident(subagent_results)) = 1
        /\ Len(state.observations) = 5

\* C7 as amended: with a score of 5 the stage dispatches 4 tasks (the first
\* four catalog aspects); with one failure raised by the worker invocation
\* it yields 4 results (3 confident, 1 at 0.0), with one failure raised by
\* create_agent it yields 3 results (all confident); the reporter receives
\* one observation per result.
C7_FourTasks ==
    ScoreFiveOneFailure =>
        /\ Len(parallel_tasks) = 4
        /\ \A i \in 1..4 : parallel_tasks[i].agent_id = << i - 1, all_aspects[i].type >>
        /\ Cardinality(Caught) = 1 =>
              /\ Len(subagent_results) = 4
              /\ Cardinality(Confident(subagent_results)) = 3
              /\ Cardinality(Unconfident(subagent_results)) = 1
        /\ Cardinality(Escaped) = 1 =>
              /\ Len(subagent_results) = 3
              /\ Cardinality(Confident(subagent_results)) = 3
        /\ Len(state.observations) = Len(subagent_results)
        /\ \A j \in DOMAIN subagent_results :
              state.observations[j].confidence = subagent_results[j].confidence_score

C7_Witness ==
    /\ ScoreFiveOneFailure
    /\ Cardinality(Caught) = 1
    /\ Len(state.observations) = 4

\* the case of C8: the planner, under its iteration cap, obtains a valid
\* plan that has not enough context
PlannerGotPlanNeedingResearch ==
    /\ node = "planner"
    /\ state.plan_iterations < configurable.max_plan_iterations
    /\ JsonLoads(full_response')
    /\ ModelValidates(full_response')
    /\ full_response'.has_enough_context # "True"

C9_MalformedPlanIsRouted ==
    (full_response # NoResponse /\ ~(JsonLoads(full_response) /\ ModelValidates(full_response)))
        => (raised_by # "planner" /\ node \in {"reporter", "__end__", "raised"})

\* C10: when the model output cannot be parsed and the iteration cap is not
\* hit, the planner goes to reporter if plan_iterations > 0 and to end if
\* plan_iterations = 0, and leaves current_plan, observations and
\* plan_iterations as they were.
C10_ParseFailureRouting ==
    [][(/\ node = "planner"
        /\ state.plan_iterations < configurable.max_plan_iterations
        /\ ~JsonLoads(full_response')) =>
          /\ state.plan_iterations > 0 => node' = "reporter"
          /\ state.plan_iterations = 0 => node' = "__end__"
          /\ state'.current_plan = state.current_plan
          /\ state'.observations = state.observations
          /\ state'.plan_iterations = state.plan_iterations]_vars

C10_Witness ==
    /\ node = "reporter"
    /\ full_response.json = "unparsable"
    /\ state.plan_iterations > 0
    /\ state.current_plan = NoPlan

C12_ObservationsReachReporter ==
    (node = "__end__" /\ Len(state.observations) >= 1)
        => state.final_report = "report"

\* C13: the coordinator goes to background_investigator when a handoff
\* carrying a research topic was obtained and background investigation is
\* enabled, to planner when one was obtained and it is disabled, and to the
\* end when none was obtained; background_investigator always continues to
\* planner.
C13_CoordinatorTransitions ==
    [][/\ node = "coordinator" =>
            IF state'.research_topic # ""
            THEN node' = IF state.enable_background_investigation
                         THEN "background_investigator" ELSE "planner"
            ELSE node' = "__end__"
       /\ node = "background_investigator" => node' = "planner"]_vars

\* C18: every stage transition leaves the previous observations as a prefix
\* of the new observations; the fan-in of parallel_research appends.
C18_ObservationsAppendOnly ==
    [][/\ Len(state.observations) <= Len(state'.observations)
       /\ SubSeq(state'.observations, 1, Len(state.observations))
              = state.observations]_vars

\* C19: every plan accepted by the plan model and stored as current_plan has
\* exactly one variant populated: streams if and only if its mode is
\* parallel, steps if and only if its mode is sequential.
C19_ExactlyOneVariant ==
    state.current_plan.kind = "plan" =>
        /\ Populated(state.current_plan.subagent_streams)
               <=> state.current_plan.planning_mode = PARALLEL_MULTI_AGENT
        /\ Populated(state.current_plan.steps)
               <=> state.current_plan.planning_mode = SEQUENTIAL_STEPS

\* C20: in every plan stored as current_plan no two streams carry the same
\* stream_id.
C20_StreamIdsUnique ==
    state.current_plan.kind = "plan" =>
        \A i, j \in 1..Len(state.current_plan.subagent_streams.items) :
            state.current_plan.subagent_streams.items[i].stream_id
                = state.current_plan.subagent_streams.items[j].stream_id
            => i = j

\* the reviewer's values by what they are: edit requests, acceptances, others
EditRequestValues ==
    { Feedback(<< "[EDIT_PLAN]", " add a step" >>), Feedback(<< "[edit_plan]" >>) }
AcceptanceValues ==
    { Feedback(<< "[ACCEPTED]" >>), Feedback(<< "[Accepted]", " go on" >>) }
UnsupportedValues ==
    { NoFeedback, Feedback(<< >>), Feedback(<< "yes" >>),
      Feedback(<< " ", "[ACCEPTED]" >>) }

\* human_feedback has taken the plan as accepted, by token or automatically
PlanAccepted ==
    /\ node = "human_feedback"
    /\ state.auto_accepted_plan \/ feedback' \in AcceptanceValues

C15_ProtocolViolationIsFatal ==
    [][(/\ node = "human_feedback"
        /\ ~state.auto_accepted_plan
        /\ feedback' \in UnsupportedValues) =>
          /\ node' = "raised"
          /\ raised_by' = "human_feedback"
          /\ state' = state]_vars

C15_Witness ==
    /\ node = "raised"
    /\ raised_by = "human_feedback"
    /\ feedback = Feedback(<< >>)
    /\ state.current_plan.kind = "str"
    /\ JsonLoads(state.current_plan.text) /\ ModelValidates(state.current_plan.text)

\* the router is about to route a plan with at least one step
RoutingSteps ==
    /\ node = "research_team"
    /\ \/ state.current_plan.kind = "legacy"
       \/ /\ state.current_plan.kind = "plan"
          /\ state.current_plan.planning_mode = SEQUENTIAL_STEPS
    /\ Len(state.current_plan.steps.items) > 0

\* C16: for a sequential plan with at least one step lacking a result (its
\* execution_res is null), the router routes by the type of the first such
\* step in declaration order: RESEARCH to researcher, PROCESSING to coder.
C16_FirstStepLackingResult ==
    [][(/\ RoutingSteps
        /\ \E i \in 1..Len(state.current_plan.steps.items) :
              state.current_plan.steps.items[i].execution_res = NoneRes) =>
          LET steps == state.current_plan.steps.items
              first == CHOOSE i \in 1..Len(steps) :
                          /\ steps[i].execution_res = NoneRes
                          /\ \A j \in 1..(i - 1) : steps[j].execution_res # NoneRes
          IN  node' = IF steps[first].step_type = RESEARCH
                      THEN "researcher" ELSE "coder"]_vars

\* C17: for a sequential plan with at least one step, the router takes its
\* "all steps have a result" exit to planner exactly when the plan model
\* calls the plan complete (every step has a non-null execution_res).
C17_CompletenessAgreement ==
    [][(/\ RoutingSteps
        /\ state.current_plan.kind = "plan") =>
          ((node' = "planner") <=> is_research_complete(state.current_plan))]_vars

\* the categories of the assessor that a query matches
MatchedCategories(query) ==
    { k \in {"complexity", "breadth", "technical", "long"} :
        \/ k = "complexity" /\ query.terms \cap complexity_indicators # {}
        \/ k = "breadth"    /\ query.terms \cap breadth_indicators # {}
        \/ k = "technical"  /\ query.terms \cap technical_indicators # {}
        \/ k = "long"       /\ query.words > LongQueryWords }

\* C22: for every query the assessor returns min(5, 2 + c), c being the
\* number of the four categories the query matches, each counted once
\* however many of its terms match; the result lies in 2..5.
C22_ComplexityScore ==
    call.fn = "_assess_query_complexity" =>
        LET c == Cardinality(MatchedCategories(call.query))
        IN  /\ ret = IF BaseScore + c <= MaxScore THEN BaseScore + c ELSE MaxScore
            /\ ret \in BaseScore..MaxScore

C22_Witness ==
    /\ call.fn = "_assess_query_complexity"
    /\ Cardinality(call.query.terms \cap complexity_indicators) = 2
    /\ MatchedCategories(call.query) = {"complexity"}
    /\ ret = BaseScore + 1

\* the types of a list of aspects
AspectTypes(aspects) == [i \in 1..Len(aspects) |-> aspects[i].type]

\* the catalog of the decomposer, in its order
CatalogTypes ==
    << "current_state", "historical_context", "stakeholder_analysis",
       "technical_specs", "data_analysis", "future_trends" >>

\* C23: for every query and every n in 2..5 the decomposer yields exactly n
\* aspects: current-state and future-trends for n = 2, current-state,
\* historical-context and future-trends for n = 3, and the first n entries
\* of the catalog in catalog order for n >= 4.
C23_DecompositionSelection ==
    (call.fn = "_identify_research_aspects" /\ call.num_agents \in 2..5) =>
        /\ Len(ret) = call.num_agents
        /\ call.num_agents = 2 =>
              AspectTypes(ret) = << "current_state", "future_trends" >>
        /\ call.num_agents = 3 =>
              AspectTypes(ret) =
                  << "current_state", "historical_context", "future_trends" >>
        /\ call.num_agents >= 4 =>
              AspectTypes(ret) = SubSeq(CatalogTypes, 1, call.num_agents)

C23_Witness ==
    /\ call.fn = "_identify_research_aspects"
    /\ call.num_agents = 3
    /\ Len(ret) = 3
    /\ ret[3].type = "future_trends"

\* C24: every produced task has the role coder if and only if its aspect is
\* future-trends, data-analysis or technical-specs, and researcher otherwise;
\* its tools are search and crawl, plus the code-execution tool if and only
\* if its aspect is current-state, future-trends, data-analysis or
\* technical-specs.
C24_RoleAndTools ==
    call.fn = "create_parallel_research_plan" =>
        \A i \in 1..Len(ret) :
            LET aspect == ret[i].agent_id[2]
            IN  /\ ret[i].agent_type =
                      IF aspect \in {"future_trends", "data_analysis", "technical_specs"}
                      THEN "coder" ELSE "researcher"
                /\ ret[i].tools =
                      IF aspect \in {"current_state", "future_trends",
                                     "data_analysis", "technical_specs"}
                      THEN << "web_search", "crawl_tool", "python_repl_tool" >>
                      ELSE << "web_search", "crawl_tool" >>

C24_Witness ==
    /\ call.fn = "create_parallel_research_plan"
    /\ Len(ret) = 5
    /\ ret[1].agent_id[2] = "current_state" /\ ret[1].agent_type = "researcher"
    /\ ret[5].agent_id[2] = "data_analysis" /\ ret[5].agent_type = "coder"

\* the lines that hold one of the keywords, whatever their case
KeywordLines == {LineKeyFinding, LineImportant}

\* the positions of the keyword lines of a raw output
KeywordPositions(raw) == { i \in 1..Len(raw) : raw[i] \in KeywordLines }

\* the compressor has been called; its output after the focus label
CompressCalled == call.fn = "_compress_findings"
CompressedBody == SubSeq(ret, 4, Len(ret))

\* C26: when some line of the raw output holds a keyword the body is the
\* first 5 such lines in their order; otherwise it is the raw output when
\* that has at most 1000 characters, and its first 1000 characters followed
\* by an ellipsis when it is longer; the body always follows the focus
\* label, for the empty input too.
C26_CompressionPolicy ==
    CompressCalled =>
        LET raw == call.raw_content
            idx == KeywordPositions(raw)
        IN  /\ Len(ret) >= 3
            /\ SubSeq(ret, 1, 3) = << "**", call.focus_area, "**:" >>
            /\ idx # {} =>
                  /\ Len(CompressedBody) =
                        IF Cardinality(idx) <= TopKeyLines
                        THEN Cardinality(idx) ELSE TopKeyLines
                  /\ \A k \in 1..Len(CompressedBody) :
                        CompressedBody[k] =
                            raw[CHOOSE i \in idx :
                                   Cardinality({j \in idx : j < i}) = k - 1]
            /\ (idx = {} /\ RawChars(raw) <= TruncateAt) => CompressedBody = raw
            /\ (idx = {} /\ RawChars(raw) > TruncateAt) =>
                  CompressedBody = Truncate(raw, TruncateAt) \o << "..." >>

C26_Witness ==
    /\ CompressCalled
    /\ Cardinality(KeywordPositions(call.raw_content)) > TopKeyLines
    /\ call.raw_content[1] = LineImportant
    /\ call.raw_content[2] = LineKeyFinding
    /\ Len(CompressedBody) = TopKeyLines
    /\ CompressedBody[2] = LineKeyFinding

\* C27 as stated: a line with the word 'finding' is returned verbatim as
\* part of the output, whatever the other lines are and wherever it stands.
C27_FindingLineAlwaysKept ==
    (CompressCalled /\ \E i \in 1..Len(call.raw_content) :
                          call.raw_content[i] = LineKeyFinding) =>
        \E k \in 1..Len(CompressedBody) : CompressedBody[k] = LineKeyFinding

\* C27 as amended: a line with the word 'finding' that has fewer than five
\* keyword lines before it is returned verbatim as part of the output.
C27_FindingLineKept ==
    CompressCalled =>
        \A i \in 1..Len(call.raw_content) :
            (/\ call.raw_content[i] = LineKeyFinding
             /\ Cardinality({j \in KeywordPositions(call.raw_content) : j < i})
                    < TopKeyLines) =>
                \E k \in 1..Len(CompressedBody) : CompressedBody[k] = LineKeyFinding

C27_Witness ==
    /\ CompressCalled
    /\ Len(call.raw_content) = 5
    /\ \A j \in 1..4 : call.raw_content[j] = LineImportant
    /\ call.raw_content[5] = LineKeyFinding
    /\ CompressedBody[5] = LineKeyFinding

\* C21: mark_stream_completed(id, findings, confidence) sets status,
\* findings and confidence of one stream, whose stream_id is id, leaves
\* every other stream and every other field of the plan (and of the
\* workflow state) as it was, and changes nothing when no stream has that
\* id or the plan has no streams.
C21_SingleWriter ==
    [][call'.fn = "mark_stream_completed" =>
        LET old     == state.current_plan
            new     == state'.current_plan
            before  == old.subagent_streams.items
            after   == new.subagent_streams.items
            hits    == { i \in 1..Len(before) : before[i].stream_id = call'.stream_id }
            changed == { i \in 1..Len(before) : after[i] # before[i] }
        IN  /\ Len(after) = Len(before)
            /\ [new EXCEPT !.subagent_streams.items = before] = old
            /\ [state' EXCEPT !.current_plan = old] = state
            /\ Cardinality(changed) <= 1
            /\ changed \subseteq hits
            /\ hits # {} =>
                  \E i \in hits :
                     /\ after[i] = [before[i] EXCEPT
                                       !.status = "completed",
                                       !.findings = call'.findings,
                                       !.confidence_score = call'.confidence]
                     /\ \A j \in 1..Len(before) : j # i => after[j] = before[j]
            /\ (hits = {} \/ old.subagent_streams.none) => new = old]_vars

C21_Witness ==
    /\ call.fn = "mark_stream_completed"
    /\ Len(state.current_plan.subagent_streams.items) = 3
    /\ state.current_plan.subagent_streams.items[1].stream_id = "market_analysis"
    /\ state.current_plan.subagent_streams.items[1].status = "pending"
    /\ state.current_plan.subagent_streams.items[2].stream_id = "current_state"
    /\ state.current_plan.subagent_streams.items[2].status = "completed"
    /\ state.current_plan.subagent_streams.items[2].findings = call.findings
    /\ state.current_plan.subagent_streams.items[3].stream_id = "current_state"
    /\ state.current_plan.subagent_streams.items[3].status = "pending"

\* C25: final_report is written by the reporter only, so a run that goes
\* from the coordinator straight to the end, or ends from the planner,
\* finishes with final_report never set.
C25_ReportOnlyByReporter ==
    [][/\ node # "reporter" => state'.final_report = state.final_report
       /\ (node \in {"coordinator", "planner"} /\ node' = "__end__") =>
              state'.final_report = ""]_vars

C25_Witness ==
    /\ node = "__end__"
    /\ full_response = NoResponse
    /\ state.research_topic = ""
    /\ state.final_report = ""

\* C28: at most one stage is active: when a stage hands over, the edges of
\* the graph out of it trigger no stage other than the one its own
\* transition names; and tasks run only inside parallel_research, between
\* its dispatch and its join.
C28_SingleActiveStage ==
    /\ []((\E i \in DOMAIN outcome : outcome[i] = Invoking) =>
              (node = "parallel_research" /\ pc = "gather"))
    /\ [][(node' # node /\ node' # "raised") => StaticEdges(node) \subseteq {node'}]_vars

C28_Witness ==
    /\ node = "parallel_research"
    /\ pc = "gather"
    /\ Cardinality({i \in DOMAIN outcome : outcome[i] = Invoking}) >= 2

\* C30: when the planner obtains a valid plan it stores it as current_plan;
\* with has_enough_context true it goes to reporter and no research stage
\* runs, with has_enough_context false or absent it goes on to research;
\* plan_iterations and observations are as before in both cases.
C30_ContextSufficiency ==
    [][(/\ node = "planner"
        /\ state.plan_iterations < configurable.max_plan_iterations
        /\ JsonLoads(full_response')
        /\ ModelValidates(full_response')) =>
          /\ state'.current_plan = UnifiedResearchPlan(full_response')
          /\ full_response'.has_enough_context = "True" =>
                (node' = "reporter" /\ pc' = "idle" /\ parallel_tasks' = << >>)
          /\ full_response'.has_enough_context \in {"False", "None"} =>
                node' = "parallel_research"
          /\ state'.plan_iterations = state.plan_iterations
          /\ state'.observations = state.observations]_vars

C30_Witness ==
    /\ node = "reporter"
    /\ state.current_plan.kind = "plan"
    /\ state.current_plan.has_enough_context = "True"
    /\ pc = "idle"
    /\ state.final_report = ""

\* a task's coroutine is in flight: not begun, or waiting for its worker
InFlight(o) == o = Ready \/ o = Invoking

\* C29: when the run is cancelled while execute_parallel_research waits at
\* the join, every task in flight ends cancelled: none goes on running and
\* none turns the cancellation into a degraded result; the tasks that were
\* done keep their outcome, no task is running afterwards, and neither
\* results nor observations are written then or later.
C29_CooperativeCancellation ==
    /\ [](pc = "cancelled" => \A i \in DOMAIN outcome : ~InFlight(outcome[i]))
    /\ [][/\ (pc = "gather" /\ pc' = "cancelled") =>
                /\ \A i \in DOMAIN outcome :
                      IF InFlight(outcome[i])
                      THEN outcome'[i].kind = "cancelled"
                      ELSE outcome'[i] = outcome[i]
                /\ state' = state
                /\ subagent_results' = subagent_results
                /\ errorLog' = errorLog
          /\ pc = "cancelled" =>
                (state' = state /\ outcome' = outcome
                 /\ subagent_results' = subagent_results)]_vars

C29_Witness ==
    /\ pc = "cancelled"
    /\ started < Len(parallel_tasks)
    /\ \E i \in DOMAIN outcome : outcome[i].kind = "result"
    /\ \E i \in 1..started : outcome[i].kind = "cancelled"
    /\ state.observations = << >>
    /\ subagent_results = << >>

\* C36: whenever the reporter stage is entered, current_plan in the workflow
\* state is a plan object with a title and a thought, whichever exit led to
\* the reporter.
C36_ReporterHasPlan ==
    node = "reporter" =>
        /\ state.current_plan # NoPlan
        /\ state.current_plan.kind = "plan"

\* the stages the builder registers or imports but no route leads to
UnenteredStages == {"human_feedback", "research_team", "researcher", "coder"}

TasksNamed(agent_id) ==
    {i \in DOMAIN parallel_tasks : parallel_tasks[i].agent_id = agent_id}

\* C33: within one dispatch round the tasks' agent_ids are pairwise distinct,
\* every result carries the agent_id of exactly one dispatched task (its own),
\* no agent_id enters the join twice, and a task's worker is invoked at most
\* once: a task that has left the ready state never returns to it, and a
\* task whose invocation ended is never invoked again.
C33_OneInvocationPerAgent ==
    /\ [](\A i, j \in DOMAIN parallel_tasks :
             parallel_tasks[i].agent_id = parallel_tasks[j].agent_id => i = j)
    /\ [](\A i \in DOMAIN outcome :
             outcome[i].kind = "result" =>
                /\ outcome[i].result.agent_id = parallel_tasks[i].agent_id
                /\ TasksNamed(outcome[i].result.agent_id) = {i})
    /\ [](pc = "joined" =>
             \A j \in DOMAIN subagent_results :
                /\ Cardinality(TasksNamed(subagent_results[j].agent_id)) = 1
                /\ ResultsOf(subagent_results[j].agent_id) = {j})
    /\ [][pc = "gather" =>
             /\ parallel_tasks' = parallel_tasks
             /\ \A i \in DOMAIN outcome :
                   /\ outcome[i] # Ready => outcome'[i] # Ready
                   /\ outcome[i] \notin {Ready, Invoking} => outcome'[i] = outcome[i]]_vars

C33_Witness ==
    /\ pc = "joined"
    /\ Len(parallel_tasks) = NodeMaxSubagents
    /\ Cardinality(Escaped) = 1
    /\ Cardinality(Caught) = 1
    /\ Len(subagent_results) = NodeMaxSubagents - 1

\* the stages in the order the workflow can visit them; every other value
\* of node (the end, an exception) comes after all of them
StageOrder == << "coordinator", "background_investigator", "planner",
                 "parallel_research", "reporter" >>

Rank(n) ==
    IF \E k \in DOMAIN StageOrder : StageOrder[k] = n
    THEN CHOOSE k \in DOMAIN StageOrder : StageOrder[k] = n
    ELSE Len(StageOrder) + 1

Finished == node \in {"__end__", "raised"}

\* C34: a run started at the coordinator ends (at the end of the graph, or
\* with the exception of a stage that raised); every step either moves to a
\* stage strictly later in the order coordinator, background_investigator,
\* planner, parallel_research, reporter, or is an inner step of the
\* research stage, which is set up once and joined once.  So no stage is
\* executed twice, at most five are executed, and no transition closes a
\* cycle.
C34_Termination ==
    /\ [][IF node = "parallel_research" /\ node' = node
          THEN /\ pc \in {"idle", "gather"}
               /\ pc' = "gather"
               /\ pc = "idle" => parallel_tasks = << >>
          ELSE Rank(node') > Rank(node)]_vars
    /\ <>Finished

C34_Witness ==
    /\ node = "__end__"
    /\ state.enable_background_investigation
    /\ state.background_investigation_results = "results"
    /\ pc = "joined"
    /\ state.final_report = "report"

\* the research stage was entered with nothing it can take a title from
EnteredWithoutPlan ==
    /\ node = "parallel_research"
    /\ pc = "idle"
    /\ (state.current_plan = NoPlan \/ state.current_plan.kind = "str")

C32_TaskCount ==
    (call.fn = "create_parallel_research_plan" /\ call.max_subagents >= 1) =>
        LET c       == Cardinality(MatchedCategories(call.query))
            score   == IF BaseScore + c <= MaxScore THEN BaseScore + c ELSE MaxScore
            floored == IF score >= MinSubagents THEN score ELSE MinSubagents
            count   == IF call.max_subagents <= floored
                       THEN call.max_subagents ELSE floored
        IN  /\ Len(ret) = count
            /\ Len(ret) <= call.max_subagents
            /\ call.max_subagents = NodeMaxSubagents =>
                  Len(ret) \in MinSubagents..NodeMaxSubagents

C32_Witness ==
    /\ call.fn = "create_parallel_research_plan"
    /\ call.max_subagents = 1
    /\ Cardinality(MatchedCategories(call.query)) >= 2
    /\ Len(ret) = 1

\* C37: plan_iterations changes in human_feedback only, and there only when
\* an accepted (or auto-accepted) plan parses and validates, by exactly 1;
\* every other step of every node (coordinator, background_investigator,
\* planner, parallel_research, reporter) leaves it as it was, so a run that
\* does not pass through human_feedback keeps its initial value.
C37_IterationsFrame ==
    [][IF /\ PlanAccepted
          /\ state.current_plan.text.json = "object"
          /\ state.current_plan.text.required
          /\ state.current_plan.text.planning_mode \in PlanningMode
       THEN state'.plan_iterations = state.plan_iterations + 1
       ELSE state'.plan_iterations = state.plan_iterations]_vars

C37_Witness ==
    /\ node = "__end__"
    /\ feedback \in AcceptanceValues
    /\ state.plan_iterations = 1
    /\ state.current_plan.kind = "plan"
    /\ pc = "joined"
    /\ state.final_report = "report"

\* every stream_id occurring in the plan has been given to
\* mark_stream_completed: plans start with every stream pending, and a call
\* completes a stream of its id whenever the plan has one
EveryIdMarked(plan) ==
    /\ Populated(plan.subagent_streams)
    /\ \A i \in DOMAIN plan.subagent_streams.items :
          \E j \in DOMAIN plan.subagent_streams.items :
             /\ plan.subagent_streams.items[j].stream_id =
                   plan.subagent_streams.items[i].stream_id
             /\ plan.subagent_streams.items[j].status = "completed"

SomeStreamOpen(plan) ==
    \E i \in DOMAIN plan.subagent_streams.items :
       plan.subagent_streams.items[i].status # "completed"

\* C38: for a parallel plan with at least one stream, once
\* mark_stream_completed has been called for each stream_id occurring in the
\* plan, get_active_streams() is empty and is_research_complete() is true;
\* while some stream is not completed, is_research_complete() is false.
C38_CompletionAfterEveryIdMarked ==
    /\ (call.fn = "get_active_streams" /\ EveryIdMarked(state.current_plan)) =>
          ret = << >>
    /\ (call.fn = "is_research_complete" /\ EveryIdMarked(state.current_plan)) =>
          ret = TRUE
    /\ (call.fn = "is_research_complete" /\ SomeStreamOpen(state.current_plan)) =>
          ret = FALSE

====
